---- MODULE Spec2Model ----
(***************************************************************************)
(* Replication protocol of hospital_a.py: every node keeps its patients    *)
(* in a local database, publishes each local mutation as a JSON event to    *)
(* the fanout exchange 'patients_exchange', and a consumer thread applies   *)
(* the events of the other nodes to the local database.                     *)
(***************************************************************************)
EXTENDS Integers, Sequences, FiniteSets, TLC

(* ------------------------------ bounds -------------------------------- *)
MaxId == 2          \* primary keys 1..MaxId
MaxTime == 2        \* datetime values 1..MaxTime
MaxLog == 3         \* deliveries SpecApply follows from a remembered delivery on
MaxRequests == 2    \* requests the handlers commit or reject under Spec, over all
                    \* nodes
MaxCrashes == 1     \* kills of a process and losses of a connection under Spec,
                    \* over all nodes

(* --------------------------- the data model --------------------------- *)
\* HOSPITAL_ID of the nodes of the replication group
Nodes == {"hospital_a", "hospital_b"}

HOSPITAL_ID == "hospital_a"

Ids == 1..MaxId
Times == 1..MaxTime

\* JSON null (Python None) for numbers, strings and timestamps
Null == 0
NullStr == "null"
NullTime == << >>

\* the (name, age, diagnosis_TEXT) values requests and events carry
FieldValues ==
  { [name |-> "Jane", age |-> 40, diagnosis_TEXT |-> "flu"],
    [name |-> "John", age |-> 41, diagnosis_TEXT |-> "cold"] }

\* a row of the table Patient; the primary key is the index of the row
Patient(name, age, diagnosis_TEXT, last_update) ==
  [name |-> name, age |-> age, diagnosis_TEXT |-> diagnosis_TEXT,
   last_update |-> last_update]

Rows == { Patient(f.name, f.age, f.diagnosis_TEXT, t) : f \in FieldValues, t \in Times }

\* the contents of the table Patient: a function from the ids present to rows
EmptyTable == [i \in {} |-> Patient(NullStr, Null, NullStr, Null)]

Tables == UNION { [D -> Rows] : D \in SUBSET Ids }

\* datetime.isoformat() and datetime.fromisoformat(): the wire form of a
\* timestamp is a string, here a one-element sequence, never the datetime
isoformat(t) == << t >>

fromisoformat(w) == w[1]

(* ------------------------------ messages ------------------------------ *)
EventKeys == {"action", "id", "name", "age", "diagnosis_TEXT", "last_update", "origin"}

\* the body of a message: json says whether json.loads accepts it, keys are
\* the keys of the decoded object
Body(keys, action, id, name, age, diagnosis_TEXT, last_update, origin) ==
  [json |-> TRUE, keys |-> keys, action |-> action, id |-> id, name |-> name,
   age |-> age, diagnosis_TEXT |-> diagnosis_TEXT, last_update |-> last_update,
   origin |-> origin]

\* UpsertEvent with the origin left out of the event
UpsertEventNoOrigin(id, row, origin) ==
  Body(EventKeys, "add_or_update", id, row.name, row.age, row.diagnosis_TEXT,
       isoformat(row.last_update), NullStr)

\* the event of POST /patients and PUT /patients/<id>
UpsertEvent(id, row, origin) ==
  Body(EventKeys, "add_or_update", id, row.name, row.age, row.diagnosis_TEXT,
       isoformat(row.last_update), origin)

\* the event of DELETE /patients/<id>
DeleteEvent(id, row, origin) ==
  Body(EventKeys, "delete", id, row.name, row.age, row.diagnosis_TEXT,
       isoformat(row.last_update), origin)

\* the event of DELETE /patients
DeleteAllEvent(origin) ==
  Body(EventKeys, "delete_all", Null, NullStr, Null, NullStr, NullTime, origin)

\* a body json.loads rejects
NotJson ==
  [json |-> FALSE, keys |-> {}, action |-> NullStr, id |-> Null, name |-> NullStr,
   age |-> Null, diagnosis_TEXT |-> NullStr, last_update |-> NullTime,
   origin |-> NullStr]

\* the key k removed from the object b
Without(b, k) == [b EXCEPT !.keys = b.keys \ {k}]

\* the events of the other node that SpecApply delivers
RemoteEvents ==
  { UpsertEvent(i, r, "hospital_b") : i \in Ids, r \in Rows }
  \cup { DeleteEvent(i, Patient("Jane", 40, "flu", 1), "hospital_b") : i \in Ids }
  \cup { DeleteAllEvent("hospital_b") }

\* events that carry the node's own HOSPITAL_ID as origin
SelfEvents ==
  { UpsertEvent(1, Patient("John", 41, "cold", MaxTime), HOSPITAL_ID),
    DeleteEvent(1, Patient("Jane", 40, "flu", 1), HOSPITAL_ID),
    DeleteAllEvent(HOSPITAL_ID),
    [json |-> TRUE, keys |-> {"origin"}, action |-> NullStr, id |-> Null,
     name |-> NullStr, age |-> Null, diagnosis_TEXT |-> NullStr,
     last_update |-> NullTime, origin |-> HOSPITAL_ID] }

\* bodies that do not decode or whose apply fails
SampleRow == Patient("Jane", 40, "flu", 1)

BadEvents ==
  { NotJson,
    Without(UpsertEvent(1, SampleRow, "hospital_b"), "origin"),
    Without(UpsertEvent(1, SampleRow, "hospital_b"), "action"),
    Without(UpsertEvent(1, SampleRow, "hospital_b"), "id"),
    Without(UpsertEvent(1, SampleRow, "hospital_b"), "name"),
    Without(UpsertEvent(1, SampleRow, "hospital_b"), "last_update"),
    [UpsertEvent(1, SampleRow, "hospital_b") EXCEPT !.name = NullStr],
    [UpsertEvent(1, SampleRow, "hospital_b") EXCEPT !.last_update = NullTime],
    Without(DeleteEvent(1, SampleRow, "hospital_b"), "id") }

(* ------------------------ the consumer callback ----------------------- *)
\* what a run of callback leaves: the committed table, and whether an
\* exception left the callback
Return(table) == [table |-> table, raised |-> FALSE, applied |-> TRUE]

Raise(table) == [table |-> table, raised |-> TRUE, applied |-> TRUE]

\* the keys the upsert branches read, and values they cannot convert
UpsertReadFails(data) ==
  \/ ~({"name", "age", "diagnosis_TEXT", "last_update"} \subseteq data.keys)
  \/ data.last_update = NullTime

\* UpdateExisting with the commit of line 207 also run for an existing row
UpdateExistingCommitted(table, data) ==
  IF UpsertReadFails(data) THEN Raise(table)
  ELSE Return([table EXCEPT ![data.id] =
         Patient(data.name, data.age, data.diagnosis_TEXT,
                 fromisoformat(data.last_update))])

\* lines 193-197: the row exists; the attributes are assigned in the
\* session and the session is removed at the end of the app context
\* without a commit
UpdateExisting(table, data) ==
  IF UpsertReadFails(data) THEN Raise(table) ELSE Return(table)

\* the greatest primary key of the table, 0 for the empty table
MaxKey(table) ==
  IF DOMAIN table = {} THEN 0
  ELSE CHOOSE i \in DOMAIN table : \A j \in DOMAIN table : j <= i

\* InsertNew without id=data["id"]: the database assigns the primary key
InsertNewAutoId(table, data) ==
  IF UpsertReadFails(data) THEN Raise(table)
  ELSE Return(table @@ ((MaxKey(table) + 1) :>
         Patient(data.name, data.age, data.diagnosis_TEXT,
                 fromisoformat(data.last_update))))

\* lines 198-207: the row does not exist; it is added and committed
InsertNew(table, data) ==
  IF UpsertReadFails(data) THEN Raise(table)
  ELSE IF data.name = NullStr \/ data.age = Null \/ data.diagnosis_TEXT = NullStr
       THEN Raise(table)
  ELSE Return(table @@ (data.id :>
         Patient(data.name, data.age, data.diagnosis_TEXT,
                 fromisoformat(data.last_update))))

\* DeleteRow without the test of line 210: db.session.delete(None) raises
DeleteRowUnchecked(table, data) ==
  IF data.id \in DOMAIN table
  THEN Return([i \in DOMAIN table \ {data.id} |-> table[i]])
  ELSE Raise(table)

\* lines 208-212
DeleteRow(table, data) ==
  IF data.id \in DOMAIN table
  THEN Return([i \in DOMAIN table \ {data.id} |-> table[i]])
  ELSE Return(table)

\* ApplyEvent with a delete_all that spares the rows that carry a timestamp
\* later than the oldest one
ApplyEventSparesNewer(table, data) ==
  IF "action" \notin data.keys THEN Raise(table)
  ELSE IF data.action = "add_or_update" THEN
    IF "id" \notin data.keys THEN Raise(table)
    ELSE IF data.id \in DOMAIN table THEN UpdateExisting(table, data)
    ELSE InsertNew(table, data)
  ELSE IF data.action = "delete" THEN
    IF "id" \notin data.keys THEN Raise(table) ELSE DeleteRow(table, data)
  ELSE IF data.action = "delete_all" THEN
    Return([i \in { j \in DOMAIN table :
                     \E k \in DOMAIN table : table[k].last_update < table[j].last_update }
             |-> table[i]])
  ELSE Return(table)

\* lines 190-215: the part of callback below the origin check
ApplyEvent(table, data) ==
  IF "action" \notin data.keys THEN Raise(table)
  ELSE IF data.action = "add_or_update" THEN
    IF "id" \notin data.keys THEN Raise(table)
    ELSE IF data.id \in DOMAIN table THEN UpdateExisting(table, data)
    ELSE InsertNew(table, data)
  ELSE IF data.action = "delete" THEN
    IF "id" \notin data.keys THEN Raise(table) ELSE DeleteRow(table, data)
  ELSE IF data.action = "delete_all" THEN Return(EmptyTable)
  ELSE Return(table)

\* callback without the origin check of lines 187-188
callbackNoOriginCheck(table, body, self) ==
  IF ~body.json THEN [Raise(table) EXCEPT !.applied = FALSE]
  ELSE IF "origin" \notin body.keys THEN [Raise(table) EXCEPT !.applied = FALSE]
  ELSE ApplyEvent(table, body)

\* lines 184-215, run by the node self on the table
\* applied: whether the run went past the origin check
callback(table, body, self) ==
  IF ~body.json THEN [Raise(table) EXCEPT !.applied = FALSE]
  ELSE IF "origin" \notin body.keys THEN [Raise(table) EXCEPT !.applied = FALSE]
  ELSE IF body.origin = self THEN [Return(table) EXCEPT !.applied = FALSE]
  ELSE ApplyEvent(table, body)

(* ------------------------------- state -------------------------------- *)
VARIABLES
  store,      \* store[n]: the committed table Patient of node n
  clock,      \* clock[n]: the last value datetime.now() returned at node n
  declared,   \* declared[n]: the queue patients_<n> is declared and bound
  queue,      \* queue[n]: the bodies in the queue patients_<n>, oldest first
  consumer,   \* consumer[n]: "stopped" (no process), "consuming", "callback",
              \* "ended" (an exception of callback left start_consuming),
              \* "disconnected" (the connection was lost and its exception
              \* left start_consuming)
  delivered,  \* delivered[n]: the body the callback of n is running on, if any
  inflight,   \* inflight[n]: the requests of n between commit and send_to_broker
  requests,   \* the requests the handlers have committed or rejected so far
  response,   \* response[n]: the status of the last answer of n after a commit
              \* or a rejection
  crashes,    \* kills of a process and losses of a connection so far
  clean,      \* no publish failed, no process was killed, no consumer ended and
              \* every event was published to the queues of all nodes
  published,  \* the calls of basic_publish the exchange has accepted so far
  sent,       \* sent[n]: op, id and seq of the request whose event n published
              \* last, if any
  hTable,     \* SpecApply: the table of the node HOSPITAL_ID
  hBefore,    \* SpecApply: the table before the last delivery
  hLast,      \* SpecApply: the body of the last delivery, if any
  hFirst,     \* SpecApply: the body of a remembered earlier delivery, if any
  hSince,     \* SpecApply: the deliveries from the remembered one on
  hRaised,    \* SpecApply: whether the last delivery raised
  hApplied    \* SpecApply: whether the last delivery went past the origin check

sysVars == << store, clock, declared, queue, consumer, delivered, inflight,
              requests, response, crashes, clean, published, sent >>

hVars == << hTable, hBefore, hLast, hFirst, hSince, hRaised, hApplied >>

vars == << sysVars, hVars >>

\* the state of the nodes before any process has started
InitNodes ==
  /\ store = [n \in Nodes |-> EmptyTable]
  /\ declared = [n \in Nodes |-> FALSE]
  /\ queue = [n \in Nodes |-> << >>]
  /\ consumer = [n \in Nodes |-> "stopped"]
  /\ delivered = [n \in Nodes |-> << >>]
  /\ inflight = [n \in Nodes |-> {}]
  /\ requests = 0
  /\ response = [n \in Nodes |-> 0]
  /\ crashes = 0
  /\ clean = TRUE
  /\ published = 0
  /\ sent = [n \in Nodes |-> << >>]

(* ------------- SpecApply: deliveries to one node's callback ----------- *)
InitApply ==
  /\ InitNodes
  /\ clock = [n \in Nodes |-> 0]
  /\ hTable \in Tables
  /\ hBefore = hTable
  /\ hLast = << >>
  /\ hFirst = << >>
  /\ hSince = 0
  /\ hRaised = FALSE
  /\ hApplied = FALSE

\* the queue delivers body to the callback of HOSPITAL_ID; an exception
\* that leaves callback leaves start_consuming and ends the consumer thread.
\* remember: this delivery is the one later deliveries are compared with
Deliver(body, remember) ==
  /\ ~hRaised
  /\ IF remember THEN hFirst = << >> ELSE (hFirst = << >> \/ hSince < MaxLog)
  /\ hApplied' = callback(hTable, body, HOSPITAL_ID).applied
  /\ hBefore' = hTable
  /\ hTable' = callback(hTable, body, HOSPITAL_ID).table
  /\ hRaised' = callback(hTable, body, HOSPITAL_ID).raised
  /\ hLast' = << body >>
  /\ hFirst' = IF remember THEN << body >> ELSE hFirst
  /\ hSince' = IF remember THEN 1 ELSE IF hFirst = << >> THEN 0 ELSE hSince + 1
  /\ UNCHANGED sysVars

NextApply ==
  \E body \in RemoteEvents \cup SelfEvents \cup BadEvents, remember \in BOOLEAN :
    Deliver(body, remember)

SpecApply == InitApply /\ [][NextApply]_vars

(* ------------------- Spec: the nodes and the exchange ------------------ *)
\* the history of the deliveries of SpecApply, which the nodes leave alone
NoDeliveries ==
  /\ hTable = EmptyTable
  /\ hBefore = EmptyTable
  /\ hLast = << >>
  /\ hFirst = << >>
  /\ hSince = 0
  /\ hRaised = FALSE
  /\ hApplied = FALSE

Init ==
  /\ InitNodes
  /\ clock = [n \in Nodes |-> 0]
  /\ NoDeliveries

\* a request thread between its commit and its call of send_to_broker:
\* before is the table of the node when the request arrived, seq the place
\* of its commit in the order of the commits
Request(op, id, before, seq) == [op |-> op, id |-> id, before |-> before, seq |-> seq]

\* the process of n is running and serves requests
Serving(n) == consumer[n] # "stopped"

\* lines 223-228 and 174-180: the process starts; the consumer thread
\* declares and binds the durable queue and waits for deliveries
start_consumer(n) ==
  /\ consumer[n] = "stopped"
  /\ consumer' = [consumer EXCEPT ![n] = "consuming"]
  /\ declared' = [declared EXCEPT ![n] = TRUE]
  /\ UNCHANGED << response, store, clock, queue, delivered, inflight, requests, crashes,
                  clean, published, sent, hVars >>

\* lines 128 and 30: datetime.now(), later than the value read before
now(n) == clock[n] + 1

\* lines 50-69: POST /patients commits a new row; the database assigns the
\* primary key and last_update defaults to datetime.now()
post(n, f) ==
  /\ Serving(n)
  /\ requests < MaxRequests
  /\ MaxKey(store[n]) + 1 <= MaxId
  /\ now(n) <= MaxTime
  /\ LET id == MaxKey(store[n]) + 1
     IN /\ store' = [store EXCEPT ![n] =
                      store[n] @@ (id :> Patient(f.name, f.age, f.diagnosis_TEXT, now(n)))]
        /\ inflight' = [inflight EXCEPT ![n] = @ \cup {Request("post", id, store[n], requests + 1)}]
  /\ clock' = [clock EXCEPT ![n] = now(n)]
  /\ requests' = requests + 1
  /\ UNCHANGED << response, declared, queue, consumer, delivered, crashes, clean, published, sent, hVars >>

\* lines 114-135: PUT /patients/<id> commits the new fields of an existing
\* row with last_update = datetime.now()
put(n, id, f) ==
  /\ Serving(n)
  /\ requests < MaxRequests
  /\ id \in DOMAIN store[n]
  /\ now(n) <= MaxTime
  /\ store' = [store EXCEPT ![n] =
                [store[n] EXCEPT ![id] = Patient(f.name, f.age, f.diagnosis_TEXT, now(n))]]
  /\ inflight' = [inflight EXCEPT ![n] = @ \cup {Request("put", id, store[n], requests + 1)}]
  /\ clock' = [clock EXCEPT ![n] = now(n)]
  /\ requests' = requests + 1
  /\ UNCHANGED << response, declared, queue, consumer, delivered, crashes, clean, published, sent, hVars >>

\* lines 148-153: DELETE /patients/<id> commits the removal of the row
delete(n, id) ==
  /\ Serving(n)
  /\ requests < MaxRequests
  /\ id \in DOMAIN store[n]
  /\ store' = [store EXCEPT ![n] = [i \in DOMAIN store[n] \ {id} |-> store[n][i]]]
  /\ inflight' = [inflight EXCEPT ![n] = @ \cup {Request("delete", id, store[n], requests + 1)}]
  /\ requests' = requests + 1
  /\ UNCHANGED << response, clock, declared, queue, consumer, delivered, crashes, clean, published, sent, hVars >>

\* lines 82-84: DELETE /patients commits the removal of every row
delete_all(n) ==
  /\ Serving(n)
  /\ requests < MaxRequests
  /\ store' = [store EXCEPT ![n] = EmptyTable]
  /\ inflight' = [inflight EXCEPT ![n] = @ \cup {Request("delete_all", Null, store[n], requests + 1)}]
  /\ requests' = requests + 1
  /\ UNCHANGED << response, clock, declared, queue, consumer, delivered, crashes, clean, published, sent, hVars >>

\* the handler's Patient object is expired by the commit of POST and PUT:
\* building the event reads the row again and fails when it is gone
RowGone(n, r) == r.op \in {"post", "put"} /\ r.id \notin DOMAIN store[n]

\* lines 70-78, 85-93, 136-144, 154-162: the event a handler builds; the
\* Patient object of DELETE keeps the row it loaded
EventOf(n, r) ==
  IF r.op \in {"post", "put"} THEN UpsertEvent(r.id, store[n][r.id], n)
  ELSE IF r.op = "delete" THEN DeleteEvent(r.id, r.before[r.id], n)
  ELSE DeleteAllEvent(n)

\* lines 167-172: the fanout exchange copies the body to every bound queue
send_to_broker(queues, body) ==
  [m \in Nodes |-> IF declared[m] THEN Append(queues[m], body) ELSE queues[m]]

\* lines 70-80, 85-95, 136-146, 154-164: the handler builds its event,
\* publishes it and answers the request
publish(n, r) ==
  /\ Serving(n)
  /\ r \in inflight[n]
  /\ ~RowGone(n, r)
  /\ queue' = send_to_broker(queue, EventOf(n, r))
  /\ inflight' = [inflight EXCEPT ![n] = @ \ {r}]
  /\ response' = [response EXCEPT ![n] = IF r.op = "post" THEN 201 ELSE 200]
  /\ clean' = (clean /\ \A m \in Nodes : declared[m])
  /\ published' = published + 1
  /\ sent' = [sent EXCEPT ![n] = << [op |-> r.op, id |-> r.id, seq |-> r.seq] >>]
  /\ UNCHANGED << store, clock, declared, consumer, delivered, requests, crashes,
                  hVars >>

\* line 168: the broker is unreachable; BlockingConnection raises in the
\* handler after its commit and the request is answered 500
publish_unreachable(n, r) ==
  /\ Serving(n)
  /\ r \in inflight[n]
  /\ ~RowGone(n, r)
  /\ inflight' = [inflight EXCEPT ![n] = @ \ {r}]
  /\ response' = [response EXCEPT ![n] = 500]
  /\ clean' = FALSE
  /\ UNCHANGED << store, clock, declared, queue, consumer, delivered, requests,
                  crashes, published, sent, hVars >>

\* lines 72, 138: the row was deleted after the commit; reading the expired
\* Patient object raises and the request is answered 500
event_row_gone(n, r) ==
  /\ Serving(n)
  /\ r \in inflight[n]
  /\ RowGone(n, r)
  /\ inflight' = [inflight EXCEPT ![n] = @ \ {r}]
  /\ response' = [response EXCEPT ![n] = 500]
  /\ clean' = FALSE
  /\ UNCHANGED << store, clock, declared, queue, consumer, delivered, requests,
                  crashes, published, sent, hVars >>

\* line 216: auto_ack=True; the broker takes the body off the queue when it
\* hands it to the consumer
basic_consume(n) ==
  /\ consumer[n] = "consuming"
  /\ queue[n] # << >>
  /\ delivered' = [delivered EXCEPT ![n] = << Head(queue[n]) >>]
  /\ queue' = [queue EXCEPT ![n] = Tail(queue[n])]
  /\ consumer' = [consumer EXCEPT ![n] = "callback"]
  /\ UNCHANGED << response, store, clock, declared, inflight, requests, crashes, clean, published, sent, hVars >>

\* run_callback with a callback that passes the event it has applied on to
\* send_to_broker
run_callbackRebroadcast(n) ==
  /\ consumer[n] = "callback"
  /\ LET res == callback(store[n], delivered[n][1], n)
     IN /\ store' = [store EXCEPT ![n] = res.table]
        /\ consumer' = [consumer EXCEPT ![n] =
                          IF res.raised THEN "ended" ELSE "consuming"]
        /\ clean' = (clean /\ ~res.raised)
  /\ delivered' = [delivered EXCEPT ![n] = << >>]
  /\ IF callback(store[n], delivered[n][1], n).applied
     THEN /\ queue' = send_to_broker(queue, delivered[n][1])
          /\ published' = published + 1
     ELSE UNCHANGED << queue, published >>
  /\ UNCHANGED << response, clock, declared, inflight, requests, crashes, sent, hVars >>

\* lines 184-215 and 218: callback runs on the delivered body; an exception
\* leaves start_consuming and the consumer thread ends
run_callback(n) ==
  /\ consumer[n] = "callback"
  /\ LET res == callback(store[n], delivered[n][1], n)
     IN /\ store' = [store EXCEPT ![n] = res.table]
        /\ consumer' = [consumer EXCEPT ![n] =
                          IF res.raised THEN "ended" ELSE "consuming"]
        /\ clean' = (clean /\ ~res.raised)
  /\ delivered' = [delivered EXCEPT ![n] = << >>]
  /\ UNCHANGED << response, clock, declared, queue, inflight, requests, crashes, published, sent, hVars >>

\* the process of n is killed while a thread holds a delivery or a request:
\* its threads and what they hold in memory are gone, the database file and
\* the durable queue stay
crash(n) ==
  /\ Serving(n)
  /\ delivered[n] # << >> \/ inflight[n] # {}
  /\ crashes < MaxCrashes
  /\ crashes' = crashes + 1
  /\ consumer' = [consumer EXCEPT ![n] = "stopped"]
  /\ delivered' = [delivered EXCEPT ![n] = << >>]
  /\ inflight' = [inflight EXCEPT ![n] = {}]
  /\ clean' = FALSE
  /\ UNCHANGED << response, store, clock, declared, queue, requests, published, sent, hVars >>

\* lines 54 and 121: the fields a request body must carry
RequiredFields == {"name", "age", "diagnosis_TEXT"}

\* the body of a POST or PUT request: json is request.is_json, keys are the
\* keys of the object; the age Null is JSON null, which int() rejects
RequestBody(json, keys, f) ==
  [json |-> json, keys |-> keys, name |-> f.name, age |-> f.age,
   diagnosis_TEXT |-> f.diagnosis_TEXT]

\* bodies the handlers reject: not JSON, a field missing, an age that is
\* not an integer
BadBodies ==
  { RequestBody(FALSE, {}, [name |-> NullStr, age |-> Null, diagnosis_TEXT |-> NullStr]),
    RequestBody(TRUE, RequiredFields \ {"age"},
                [name |-> "John", age |-> Null, diagnosis_TEXT |-> "cold"]),
    RequestBody(TRUE, RequiredFields,
                [name |-> "John", age |-> Null, diagnosis_TEXT |-> "cold"]) }

\* a body the handlers accept
GoodBody ==
  RequestBody(TRUE, RequiredFields, [name |-> "John", age |-> 41, diagnosis_TEXT |-> "cold"])

\* lines 51-62 and 118-130: the status the handler answers for the body, 0 when
\* the handler goes on to its commit
Validate(body) ==
  IF ~body.json THEN 415
  ELSE IF ~(RequiredFields \subseteq body.keys) THEN 400
  ELSE IF body.age = Null THEN 400
  ELSE 0

\* lines 115-117 and 149-151: Patient.query.get(id) finds no row
NotFound(table, id) == id \notin DOMAIN table

\* the status PUT /patients/<id> answers before its commit, 0 when it goes
\* on to its commit
put_status(table, id, body) ==
  IF NotFound(table, id) THEN 404 ELSE Validate(body)

\* Abandoned with a flush of the session before the handler returns: the
\* name PUT has assigned before int() raised reaches the table
AbandonedFlushed(table, id, body) ==
  IF id \in DOMAIN table /\ Validate(body) = 400 /\ RequiredFields \subseteq body.keys
  THEN [table EXCEPT ![id].name = body.name]
  ELSE table

\* lines 124-130: the committed table after PUT has returned from its except
\* clause; line 125 has assigned the name on the session object, the handler
\* returns without a commit and the session is removed with the request
Abandoned(table, id, body) == table

\* lines 51-62: POST /patients rejects the body before it creates a row
post_rejected(n, body) ==
  /\ Serving(n)
  /\ requests < MaxRequests
  /\ Validate(body) # 0
  /\ response' = [response EXCEPT ![n] = Validate(body)]
  /\ requests' = requests + 1
  /\ UNCHANGED << store, clock, declared, queue, consumer, delivered, inflight,
                  crashes, clean, published, sent, hVars >>

\* lines 114-130: PUT /patients/<id> finds no row or rejects the body
put_rejected(n, id, body) ==
  /\ Serving(n)
  /\ requests < MaxRequests
  /\ put_status(store[n], id, body) # 0
  /\ response' = [response EXCEPT ![n] = put_status(store[n], id, body)]
  /\ store' = [store EXCEPT ![n] = Abandoned(store[n], id, body)]
  /\ requests' = requests + 1
  /\ UNCHANGED << clock, declared, queue, consumer, delivered, inflight,
                  crashes, clean, published, sent, hVars >>

\* lines 148-151: DELETE /patients/<id> finds no row
delete_rejected(n, id) ==
  /\ Serving(n)
  /\ requests < MaxRequests
  /\ NotFound(store[n], id)
  /\ response' = [response EXCEPT ![n] = 404]
  /\ requests' = requests + 1
  /\ UNCHANGED << store, clock, declared, queue, consumer, delivered, inflight,
                  crashes, clean, published, sent, hVars >>

\* line 218: the connection of the consumer to the broker is lost while it
\* waits for a delivery; start_consuming raises, nothing catches it or
\* connects again and the consumer thread ends. The durable queue stays
\* declared and bound and keeps what is published to it
connection_lost(n) ==
  /\ consumer[n] = "consuming"
  /\ crashes < MaxCrashes
  /\ crashes' = crashes + 1
  /\ consumer' = [consumer EXCEPT ![n] = "disconnected"]
  /\ clean' = FALSE
  /\ UNCHANGED << response, store, clock, declared, queue, delivered, inflight,
                  requests, published, sent, hVars >>

Next ==
  \E n \in Nodes :
    \/ start_consumer(n)
    \/ \E f \in FieldValues : post(n, f)
    \/ \E id \in Ids, f \in FieldValues : put(n, id, f)
    \/ \E id \in Ids : delete(n, id)
    \/ delete_all(n)
    \/ \E r \in inflight[n] : publish(n, r)
    \/ \E r \in inflight[n] : publish_unreachable(n, r)
    \/ \E r \in inflight[n] : event_row_gone(n, r)
    \/ basic_consume(n)
    \/ run_callback(n)
    \/ crash(n)
    \/ connection_lost(n)
    \/ \E body \in BadBodies : post_rejected(n, body)
    \/ \E id \in Ids, body \in BadBodies \cup {GoodBody} : put_rejected(n, id, body)
    \/ \E id \in Ids : delete_rejected(n, id)

Spec == Init /\ [][Next]_vars

\* the threads of a running process keep running: the consumer thread takes
\* the deliveries of its queue and runs callback on them, a handler thread
\* goes on from its commit to its publish, and a process that is not running
\* is started. Requests, kills and failures of the broker are not forced.
Fairness ==
  \A n \in Nodes :
    /\ WF_vars(start_consumer(n))
    /\ WF_vars(basic_consume(n))
    /\ WF_vars(run_callback(n))
    /\ WF_vars(\E r \in inflight[n] : publish(n, r) \/ event_row_gone(n, r))

SpecFair == Spec /\ Fairness

\* the wall clocks of the nodes are not synchronised: a node starts with
\* any reading of its clock
InitSkew ==
  /\ InitNodes
  /\ clock \in [Nodes -> 0..(MaxTime - 1)]
  /\ NoDeliveries

SpecSkew == InitSkew /\ [][Next]_vars

(* ----------------- properties of the callback (SpecApply) ------------- *)
Delivered == hLast # << >>

Last == hLast[1]

First == hFirst[1]

\* the last delivery is the one right after the remembered delivery
Successive == hFirst # << >> /\ hSince = 2

\* the last delivery is any delivery after the remembered delivery
Afterwards == hFirst # << >> /\ hSince >= 2

IsUpsert(b) == b \in RemoteEvents /\ b.action = "add_or_update"

\* the row an upsert event describes
EventRow(b) == Patient(b.name, b.age, b.diagnosis_TEXT, fromisoformat(b.last_update))

\* the later of two upsert events
Later(e1, e2) ==
  IF fromisoformat(e1.last_update) < fromisoformat(e2.last_update) THEN e2 ELSE e1

\* C2: last-write-wins. After two upsert events of another node for the same
\* id with different timestamps, delivered in either order, the row of that
\* id is the row of the event with the later timestamp.
LastWriteWins ==
  (/\ Successive
   /\ IsUpsert(First)
   /\ IsUpsert(Last)
   /\ First.id = Last.id
   /\ First.last_update # Last.last_update)
  => /\ Last.id \in DOMAIN hTable
     /\ hTable[Last.id] = EventRow(Later(First, Last))

\* the last delivery was an upsert of another node for a row that existed,
\* with a timestamp equal to or older than the stored one
StaleUpsertDelivered ==
  /\ Delivered
  /\ IsUpsert(Last)
  /\ Last.id \in DOMAIN hBefore
  /\ fromisoformat(Last.last_update) <= hBefore[Last.id].last_update

\* C3: a stale upsert is a no-op. An upsert of another node for an existing
\* row whose last_update is equal to or older than the stored last_update
\* leaves the table as it was.
StaleUpsertIsNoOp ==
  StaleUpsertDelivered => (hTable = hBefore /\ ~hRaised)

\* a stale upsert with other fields than the stored row was delivered
StaleUpsertWitness ==
  /\ StaleUpsertDelivered
  /\ hApplied
  /\ EventRow(Last).name # hBefore[Last.id].name
  /\ fromisoformat(Last.last_update) < hBefore[Last.id].last_update

\* C4: idempotence. An event of another node delivered twice in succession
\* leaves, after the second delivery, the table the first delivery left.
ApplyIsIdempotent ==
  (Successive /\ Last \in RemoteEvents /\ First = Last)
  => (hTable = hBefore /\ ~hRaised)

\* an upsert was delivered twice in succession and its row, which only its
\* first delivery can have inserted, is in the table
IdempotenceWitness ==
  /\ Successive
  /\ IsUpsert(Last)
  /\ First = Last
  /\ hApplied
  /\ Last.id \in DOMAIN hTable
  /\ hTable[Last.id] = EventRow(Last)

\* C5: redelivery changes nothing. An event of another node that was
\* delivered before leaves the table unchanged when it is delivered again,
\* whatever was delivered in between.
RedeliveryChangesNothing ==
  (Afterwards /\ Last \in RemoteEvents /\ First = Last)
  => hTable = hBefore

\* the last delivery carried the node's own HOSPITAL_ID as origin
SelfEchoDelivered ==
  /\ Delivered
  /\ Last.json
  /\ "origin" \in Last.keys
  /\ Last.origin = HOSPITAL_ID

\* C6: self-echo suppression. A delivery whose origin is the node's own
\* HOSPITAL_ID does not go past the origin check and leaves the table as
\* it was, whatever its action.
SelfEchoSuppressed ==
  SelfEchoDelivered => (~hApplied /\ hTable = hBefore /\ ~hRaised)

\* the node's own delete_all was delivered while the table had rows
SelfEchoWitness ==
  /\ SelfEchoDelivered
  /\ Last = DeleteAllEvent(HOSPITAL_ID)
  /\ hBefore # EmptyTable
  /\ hTable = hBefore

\* C8: failure containment. A delivery that does not decode, or whose apply
\* fails, leaves the table as it was and does not end the consumer.
FailureContained ==
  (Delivered /\ Last \in BadEvents) => (hTable = hBefore /\ ~hRaised)

(* ------------------- properties of the nodes (Spec) ------------------- *)
\* nothing is in flight: every request was answered, every queue is empty
\* and every consumer waits for the next delivery
Quiescent ==
  \A n \in Nodes :
    /\ inflight[n] = {}
    /\ queue[n] = << >>
    /\ consumer[n] = "consuming"

\* C1: convergence. Once the successful local mutations have stopped and
\* every published event has been consumed by every node, all nodes hold
\* the same table.
Convergence ==
  (Quiescent /\ clean) => \A n, m \in Nodes : store[n] = store[m]

\* the bodies of a queue
Bodies(q) == { q[i] : i \in 1..Len(q) }

\* C7: ack after commit. When the process of a node is killed while its
\* callback runs on a delivery, the delivery is still in the node's queue.
AckAfterCommit ==
  [][\A n \in Nodes :
       (consumer[n] = "callback" /\ consumer'[n] = "stopped")
       => delivered[n][1] \in Bodies(queue'[n])]_vars

\* the step in which the request r of n ends because the broker is unreachable
UnreachableStep(n, r) ==
  /\ r \in inflight[n]
  /\ ~RowGone(n, r)
  /\ inflight'[n] = inflight[n] \ {r}
  /\ consumer'[n] = consumer[n]
  /\ response'[n] = 500

\* C9: a publish failure does not cause divergence. When a request ends
\* because the broker is unreachable, the table of the node is the table
\* from before the request.
PublishFailureRollsBack ==
  [][\A n \in Nodes : \A r \in inflight[n] :
       UnreachableStep(n, r) => store'[n] = r.before]_vars

\* the step in which the request r of n is answered 200 or 201
AnsweredStep(n, r) ==
  /\ r \in inflight[n]
  /\ inflight'[n] = inflight[n] \ {r}
  /\ consumer'[n] = consumer[n]
  /\ response'[n] \in {200, 201}

\* the event e reflects what the request r of n committed
Reflects(e, n, r) ==
  /\ e.json
  /\ e.keys = EventKeys
  /\ e.origin = n
  /\ e.origin \notin {"", NullStr}
  /\ r.op \in {"post", "put"} =>
       /\ e.action = "add_or_update"
       /\ e.id = r.id
       /\ r.id \in DOMAIN store'[n]
       /\ EventRow(e) = store'[n][r.id]
  /\ r.op = "delete" => (e.action = "delete" /\ e.id = r.id)
  /\ r.op = "delete_all" => (e.action = "delete_all" /\ e.id = Null)

\* C10: the local-mutation contract. The step that answers a successful
\* create, update, delete or delete-all appends exactly one event to every
\* bound queue; the event carries the node's HOSPITAL_ID as origin and the
\* committed state: the id and the committed row of a create or update, the
\* id of a delete, no id for a delete-all.
LocalMutationContract ==
  [][\A n \in Nodes : \A r \in inflight[n] :
       AnsweredStep(n, r) =>
         \E e \in Bodies(queue'[n]) :
           /\ Reflects(e, n, r)
           /\ \A m \in Nodes :
                queue'[m] = IF declared[m] THEN Append(queue[m], e) ELSE queue[m]]_vars

\* a PUT was answered and its event is the last body of the queues of both
\* nodes, with the row the node holds
LocalMutationWitness ==
  \E n \in Nodes : \E i \in DOMAIN store[n] :
    /\ inflight[n] = {}
    /\ requests = 2
    /\ store[n][i].last_update = 2
    /\ \A m \in Nodes :
         /\ Len(queue[m]) = 2
         /\ queue[m][2] = UpsertEvent(i, store[n][i], n)

\* C11: delivery to future-bound queues. A published event reaches the queue
\* of every node, also of a node that declares and binds its queue only
\* later: when a node declares its queue for the first time, the queue holds
\* every event published so far.
DeliveredToFutureBoundQueues ==
  [][\A n \in Nodes :
       (~declared[n] /\ declared'[n]) => Len(queue'[n]) = published]_vars

(* ---------------------- more of the callback (SpecApply) --------------- *)
\* the last delivery was the delete_all event of another node
RemoteClearAllDelivered ==
  /\ Delivered
  /\ Last \in RemoteEvents
  /\ Last.action = "delete_all"

\* C12: clear-all destructiveness. Whatever the table held before, after a
\* delete_all event of another node the table holds no row, and the callback
\* has returned.
ClearAllEmptiesTable ==
  RemoteClearAllDelivered => (hTable = EmptyTable /\ ~hRaised)

\* a delete_all of another node was delivered to a table with two rows of
\* different last_update
ClearAllWitness ==
  /\ RemoteClearAllDelivered
  /\ hApplied
  /\ Cardinality(DOMAIN hBefore) = 2
  /\ \E i, j \in DOMAIN hBefore : hBefore[i].last_update < hBefore[j].last_update
  /\ hTable = EmptyTable

\* the last delivery was a delete event of another node for an id the table
\* did not hold
AbsentDeleteDelivered ==
  /\ Delivered
  /\ Last \in RemoteEvents
  /\ Last.action = "delete"
  /\ Last.id \notin DOMAIN hBefore

\* C13: a delete of an absent id is a no-op. A delete event of another node
\* for an id the table does not hold leaves the table as it was and raises
\* no error: no exception leaves the callback, so the consumer goes on with
\* the next delivery.
AbsentDeleteIsNoOp ==
  AbsentDeleteDelivered => (hTable = hBefore /\ ~hRaised)

\* a delete of an absent id was delivered to a table that holds another row
AbsentDeleteWitness ==
  /\ AbsentDeleteDelivered
  /\ hApplied
  /\ hBefore # EmptyTable
  /\ hTable = hBefore

\* the step delivers an upsert event of another node for the id that the
\* delivery before it, a delete event of another node, removed from the
\* table; the upsert carries a later timestamp than the removed row
RecreateStep ==
  /\ Delivered
  /\ Last \in RemoteEvents
  /\ Last.action = "delete"
  /\ Last.id \in DOMAIN hBefore
  /\ hLast' # << >>
  /\ IsUpsert(hLast'[1])
  /\ hLast'[1].id = Last.id
  /\ fromisoformat(hLast'[1].last_update) > hBefore[Last.id].last_update

\* C14: delete then recreate. After a delete event of another node for an
\* id the table holds and then an upsert event of another node for the same
\* id with a later timestamp, the table holds the row of that id with
\* exactly the name, age, diagnosis_TEXT and last_update of the upsert.
DeleteThenRecreate ==
  [][RecreateStep =>
       /\ hLast'[1].id \in DOMAIN hTable'
       /\ hTable'[hLast'[1].id].name = hLast'[1].name
       /\ hTable'[hLast'[1].id].age = hLast'[1].age
       /\ hTable'[hLast'[1].id].diagnosis_TEXT = hLast'[1].diagnosis_TEXT
       /\ isoformat(hTable'[hLast'[1].id].last_update) = hLast'[1].last_update
       /\ ~hRaised']_vars

\* an upsert with the latest timestamp was delivered right after a delete
\* of the same id, to a table that did not hold the id, and its row is in
\* the table next to another row
RecreateWitness ==
  /\ Successive
  /\ First \in RemoteEvents
  /\ First.action = "delete"
  /\ IsUpsert(Last)
  /\ Last.id = First.id
  /\ Last.id \notin DOMAIN hBefore
  /\ hBefore # EmptyTable
  /\ Last.last_update = isoformat(MaxTime)
  /\ Last.id \in DOMAIN hTable
  /\ hTable[Last.id] = EventRow(Last)

\* the last delivery was an upsert of another node for a row that existed,
\* with a strictly newer timestamp than the stored one, and the callback
\* has returned
NewerUpsertDelivered ==
  /\ Delivered
  /\ IsUpsert(Last)
  /\ Last.id \in DOMAIN hBefore
  /\ fromisoformat(Last.last_update) > hBefore[Last.id].last_update
  /\ ~hRaised

\* C15: a remote update is durable. After the callback has returned from an
\* upsert event of another node for an existing id with a strictly newer
\* last_update, the committed table holds the name, age, diagnosis_TEXT and
\* last_update of the event for that id.
RemoteUpdateIsDurable ==
  NewerUpsertDelivered =>
    /\ Last.id \in DOMAIN hTable
    /\ hTable[Last.id] = EventRow(Last)

(* --------------------- more of the nodes (Spec, SpecFair) -------------- *)
\* C16: reconnect after connection loss. A consumer whose connection to the
\* broker was lost consumes from its queue again later on: it never stops
\* for good.
ConsumerReconnects ==
  \A n \in Nodes : (consumer[n] = "disconnected") ~> (consumer[n] = "consuming")

\* C17: monotonic timestamp. In every step of a node, a local update or an
\* applied event, a row that is in the table before and after the step has a
\* last_update after the step that is not older than the one before it.
MonotonicTimestamp ==
  [][\A n \in Nodes : \A i \in DOMAIN store[n] \cap DOMAIN store'[n] :
       store'[n][i].last_update >= store[n][i].last_update]_vars

\* the step in which the request r of n publishes its event
PublishStep(n, r) ==
  /\ r \in inflight[n]
  /\ inflight'[n] = inflight[n] \ {r}
  /\ published' = published + 1

\* two requests change the same row: they name the same id, or one of them
\* deletes every row
SameRecord(r1, r2) ==
  r1.id = r2.id \/ r1.op = "delete_all" \/ r2.op = "delete_all"

\* C18: publish order matches commit order. When a node publishes the event
\* of a request, the event it published last for the same row belongs to a
\* request that committed earlier.
PublishOrderIsCommitOrder ==
  [][\A n \in Nodes : \A r \in inflight[n] :
       (PublishStep(n, r) /\ sent[n] # << >> /\ SameRecord(sent[n][1], r))
       => sent[n][1].seq < r.seq]_vars

\* the step in which the callback of n ends its run on a delivery
CallbackStep(n) ==
  /\ consumer[n] = "callback"
  /\ consumer'[n] \in {"consuming", "ended"}

\* C19: no re-broadcast. A run of callback on an event publishes nothing: it
\* leaves every queue and the number of published events as they are. The
\* number of published events grows only by one, in the step in which a
\* handler publishes the event of its local mutation, and a queue grows only
\* in such a step; so the events published are never more than the requests
\* committed and not in flight.
NoRebroadcast ==
  [][/\ \A n \in Nodes :
          CallbackStep(n) => (queue' = queue /\ published' = published)
     /\ (published' # published \/ \E m \in Nodes : Len(queue'[m]) > Len(queue[m]))
        => /\ published' = published + 1
           /\ \E n \in Nodes : \E r \in inflight[n] : AnsweredStep(n, r)
     /\ published' + Cardinality(UNION { inflight'[n] : n \in Nodes }) <= requests']_vars

\* one node has published the events of two local mutations, the other node
\* has applied both, and no further event has been published
NoRebroadcastWitness ==
  /\ Quiescent
  /\ published = 2
  /\ requests = 2
  /\ \E n, m \in Nodes :
       /\ response[n] = 201
       /\ response[m] = 0
       /\ Cardinality(DOMAIN store[m]) = 2

\* the step in which the node n rejects a request: the request is counted,
\* no handler goes on to a publish and n answers 404, 415 or 400
RejectedStep(n) ==
  /\ requests' = requests + 1
  /\ inflight' = inflight
  /\ response'[n] \in {404, 415, 400}
  /\ \A m \in Nodes \ {n} : response'[m] = response[m]

\* C20: rejected requests have no effect. A PUT or DELETE of an id the table
\* does not hold (404) and a POST or PUT with a body that is not JSON (415),
\* lacks a field (400) or has an age that is not an integer (400) leave the
\* committed tables as they were and publish no event.
RejectedRequestHasNoEffect ==
  [][\A n \in Nodes :
       RejectedStep(n) => (store' = store /\ queue' = queue /\ published' = published)]_vars

\* a node that holds a row it has created and published has then rejected a
\* request with 400, and a node has answered 404
RejectedWitness ==
  /\ requests = 2
  /\ published = 1
  /\ \E n \in Nodes :
       /\ response[n] = 400
       /\ store[n] # EmptyTable
       /\ store[n][1].name = "Jane"
       /\ inflight[n] = {}

====
